---- MODULE Spec2Model ----
(***************************************************************************)
(* Model of the barber-shop booking bot (src/barber_bot.py).               *)
(*                                                                         *)
(* Encodings.  A date string 'YYYY-MM-DD' is the number of its day, day 0  *)
(* being the day the run starts on.  A time string '%I:%M %p' is the       *)
(* record [h, m, p] of its three printed fields; strftime and strptime     *)
(* convert between minutes after midnight and that record.  An instant is  *)
(* a number of minutes after midnight of day 0.  A Python dict is a        *)
(* function whose DOMAIN is the set of keys that are present; a key that   *)
(* holds None is read exactly like an absent key by every .get() in the    *)
(* code, and is modelled as absent.                                        *)
(*                                                                         *)
(* Dispatch of handle_buttons.  In the file as it stands the statement at  *)
(* lines 378-385 lies outside the `if data == "help"` block: every         *)
(* callback other than book / my_bookings / help reaches it with help_text *)
(* unbound, raises UnboundLocalError and leaves the state as it was        *)
(* (action HelpFallThrough).  The branches written below that statement    *)
(* (lines 389-638) are modelled as they are written, each enabled by its   *)
(* own `if data ...` condition, next to HelpFallThrough: the behaviours of *)
(* the file as it stands are the behaviours of this model that take only   *)
(* start, Book, MyBookings, Help, HelpFallThrough, handle_text,           *)
(* send_daily_summary and Tick steps.                                      *)
(***************************************************************************)
EXTENDS Integers, Sequences, FiniteSets, TLC

VARIABLES reservations, booking_history, user_data, now, reply,
          in_date, in_slot, in_people, in_res, out

vars == <<reservations, booking_history, user_data, now, reply,
          in_date, in_slot, in_people, in_res, out>>

botVars == <<reservations, booking_history, user_data, now, reply>>
funVars == <<in_date, in_slot, in_people, in_res, out>>

-----------------------------------------------------------------------------
(* Program constants *)

SLOT_INTERVAL_MINUTES == 40
RECOMMEND_LIMIT == 5
CancelHours == 2
ClosingHour == 20
SummaryHour == 7

MinutesPerDay == 24 * 60

-----------------------------------------------------------------------------
(* Bounds of the model *)

MaxDate == 0
MaxSlotIdx == 0
MaxPeople == 2
MaxHist == 2
MaxTicks == 2
MaxOthers == 2

\* the parties of the single-party and of the two-party specification
OneParty == {1}
TwoParties == {1, 2}

-----------------------------------------------------------------------------
(* Python values *)

\* None, where it is passed as a date argument
None == -1

Has(d, k) == k \in DOMAIN d
Get(d, k, default) == IF k \in DOMAIN d THEN d[k] ELSE default
Put(d, k, v) == [x \in DOMAIN d \cup {k} |-> IF x = k THEN v ELSE d[x]]
Del(d, k) == [x \in DOMAIN d \ {k} |-> d[x]]
EmptyDict == [x \in {} |-> 0]

-----------------------------------------------------------------------------
(* Time strings *)

\* datetime.strftime("%I:%M %p") of a time of day given in minutes
strftime_IMp(mins) ==
    LET h24 == mins \div 60
        h12 == IF h24 % 12 = 0 THEN 12 ELSE h24 % 12
    IN  [h |-> h12, m |-> mins % 60, p |-> IF h24 < 12 THEN "AM" ELSE "PM"]

\* datetime.strptime(s, "%I:%M %p").time(), in minutes after midnight
\* (%p is matched without regard to case)
strptime_IMp(s) ==
    ((s.h % 12) + (IF s.p \in {"PM", "pm"} THEN 12 ELSE 0)) * 60 + s.m

OPEN_TIME_STR == [h |-> 8, m |-> 0, p |-> "AM"]
CLOSE_TIME_STR == [h |-> 8, m |-> 0, p |-> "PM"]

\* whether strptime(s, "%I:%M %p") succeeds
ParsesIMp(s) ==
    /\ DOMAIN s = {"h", "m", "p"}
    /\ s.h \in 1..12 /\ s.m \in 0..59 /\ s.p \in {"AM", "PM", "am", "pm"}

\* datetime.strptime(f"{date} {time}", "%Y-%m-%d %I:%M %p") as an instant
BookingInstant(date, time) == date * MinutesPerDay + strptime_IMp(time)

-----------------------------------------------------------------------------
(* Slot generation helpers *)

\* SlotLoop that stops before the closing time (< for <=)
RECURSIVE SlotLoop_BeforeClose(_, _)
SlotLoop_BeforeClose(cur, end_dt) ==
    IF cur < end_dt
    THEN <<strftime_IMp(cur)>> \o SlotLoop_BeforeClose(cur + SLOT_INTERVAL_MINUTES, end_dt)
    ELSE <<>>

RECURSIVE SlotLoop(_, _)
SlotLoop(cur, end_dt) ==
    IF cur <= end_dt
    THEN <<strftime_IMp(cur)>> \o SlotLoop(cur + SLOT_INTERVAL_MINUTES, end_dt)
    ELSE <<>>

generate_slots_for_date(date_str_iso) ==
    SlotLoop(strptime_IMp(OPEN_TIME_STR), strptime_IMp(CLOSE_TIME_STR))

\* list.index: 0-based position of the first element equal to x, -1 for ValueError
ListIndex(list, x) ==
    IF \E i \in 1..Len(list) : list[i] = x
    THEN (CHOOSE i \in 1..Len(list) :
             list[i] = x /\ \A j \in 1..(i - 1) : list[j] # x) - 1
    ELSE -1

\* slot_is_free with the first overlap comparison off by one (< for <=)
slot_is_free_StrictBefore(check_date_iso, candidate_slot_str, people, reservations_dict) ==
    LET slots == generate_slots_for_date(check_date_iso)
        candidate_index == ListIndex(slots, candidate_slot_str)
        needed_end == candidate_index + people
    IN  IF candidate_index = -1 THEN FALSE
        ELSE IF needed_end > Len(slots) THEN FALSE
        ELSE \A k \in DOMAIN reservations_dict :
               LET other == reservations_dict[k]
                   first == ListIndex(slots, other.time)
                   other_index ==
                       IF first # -1 THEN first
                       ELSE IF ParsesIMp(other.time)
                       THEN ListIndex(slots, strftime_IMp(strptime_IMp(other.time)))
                       ELSE -1
                   other_end == other_index + other.people
               IN  \/ other.date # check_date_iso
                   \/ /\ other_index # -1
                      /\ (needed_end < other_index \/ candidate_index >= other_end)

\* slot_is_free comparing the candidate with the other's start, not its end
slot_is_free_StartForEnd(check_date_iso, candidate_slot_str, people, reservations_dict) ==
    LET slots == generate_slots_for_date(check_date_iso)
        candidate_index == ListIndex(slots, candidate_slot_str)
        needed_end == candidate_index + people
    IN  IF candidate_index = -1 THEN FALSE
        ELSE IF needed_end > Len(slots) THEN FALSE
        ELSE \A k \in DOMAIN reservations_dict :
               LET other == reservations_dict[k]
                   first == ListIndex(slots, other.time)
                   other_index ==
                       IF first # -1 THEN first
                       ELSE IF ParsesIMp(other.time)
                       THEN ListIndex(slots, strftime_IMp(strptime_IMp(other.time)))
                       ELSE -1
                   other_end == other_index + other.people
               IN  \/ other.date # check_date_iso
                   \/ /\ other_index # -1
                      /\ (needed_end <= other_index \/ candidate_index >= other_index)

\* slot_is_free that skips a stored reservation whose slot it cannot locate
slot_is_free_SkipsUnknown(check_date_iso, candidate_slot_str, people, reservations_dict) ==
    LET slots == generate_slots_for_date(check_date_iso)
        candidate_index == ListIndex(slots, candidate_slot_str)
        needed_end == candidate_index + people
    IN  IF candidate_index = -1 THEN FALSE
        ELSE IF needed_end > Len(slots) THEN FALSE
        ELSE \A k \in DOMAIN reservations_dict :
               LET other == reservations_dict[k]
                   first == ListIndex(slots, other.time)
                   other_index ==
                       IF first # -1 THEN first
                       ELSE IF ParsesIMp(other.time)
                       THEN ListIndex(slots, strftime_IMp(strptime_IMp(other.time)))
                       ELSE -1
                   other_end == other_index + other.people
               IN  \/ other.date # check_date_iso
                   \/ other_index = -1
                   \/ (needed_end <= other_index \/ candidate_index >= other_end)

\* slot_is_free with >= for > in the test against the end of the day
slot_is_free_EndOffByOne(check_date_iso, candidate_slot_str, people, reservations_dict) ==
    LET slots == generate_slots_for_date(check_date_iso)
        candidate_index == ListIndex(slots, candidate_slot_str)
        needed_end == candidate_index + people
    IN  IF candidate_index = -1 THEN FALSE
        ELSE IF needed_end >= Len(slots) THEN FALSE
        ELSE \A k \in DOMAIN reservations_dict :
               LET other == reservations_dict[k]
                   first == ListIndex(slots, other.time)
                   other_index ==
                       IF first # -1 THEN first
                       ELSE IF ParsesIMp(other.time)
                       THEN ListIndex(slots, strftime_IMp(strptime_IMp(other.time)))
                       ELSE -1
                   other_end == other_index + other.people
               IN  \/ other.date # check_date_iso
                   \/ /\ other_index # -1
                      /\ (needed_end <= other_index \/ candidate_index >= other_end)

slot_is_free(check_date_iso, candidate_slot_str, people, reservations_dict) ==
    LET slots == generate_slots_for_date(check_date_iso)
        candidate_index == ListIndex(slots, candidate_slot_str)
        needed_end == candidate_index + people
    IN  IF candidate_index = -1 THEN FALSE
        ELSE IF needed_end > Len(slots) THEN FALSE
        ELSE \A k \in DOMAIN reservations_dict :
               LET other == reservations_dict[k]
                   first == ListIndex(slots, other.time)
                   other_index ==
                       IF first # -1 THEN first
                       ELSE IF ParsesIMp(other.time)
                       THEN ListIndex(slots, strftime_IMp(strptime_IMp(other.time)))
                       ELSE -1
                   other_end == other_index + other.people
               IN  \/ other.date # check_date_iso
                   \/ /\ other_index # -1
                      /\ (needed_end <= other_index \/ candidate_index >= other_end)

\* one pass of recommend_slots: the for loop with its break
\* ScanDay that stops one result too late
RECURSIVE ScanDay_OneOver(_, _, _, _, _, _)
ScanDay_OneOver(slots, i, day, people, reservations_dict, results) ==
    IF i > Len(slots) \/ Len(results) > RECOMMEND_LIMIT THEN results
    ELSE ScanDay_OneOver(slots, i + 1, day, people, reservations_dict,
                         IF slot_is_free(day, slots[i], people, reservations_dict)
                         THEN Append(results, <<slots[i], day>>)
                         ELSE results)

RECURSIVE ScanDay(_, _, _, _, _, _)
ScanDay(slots, i, day, people, reservations_dict, results) ==
    IF i > Len(slots) \/ Len(results) >= RECOMMEND_LIMIT THEN results
    ELSE ScanDay(slots, i + 1, day, people, reservations_dict,
                 IF slot_is_free(day, slots[i], people, reservations_dict)
                 THEN Append(results, <<slots[i], day>>)
                 ELSE results)

\* recommend_slots that scans from the requested time on
recommend_slots_FromRequested(date_str_iso, time_str, people, reservations_dict, today) ==
    LET parsed_date == IF date_str_iso = None THEN today ELSE date_str_iso
        requested_time == IF ParsesIMp(time_str) THEN strptime_IMp(time_str)
                          ELSE strptime_IMp(OPEN_TIME_STR)
        selected_date == IF requested_time >= ClosingHour * 60
                         THEN parsed_date + 1 ELSE parsed_date
        from == ListIndex(generate_slots_for_date(selected_date), time_str)
        first == ScanDay(generate_slots_for_date(selected_date),
                         IF from = -1 \/ requested_time >= ClosingHour * 60
                         THEN 1 ELSE from + 1,
                         selected_date, people, reservations_dict, <<>>)
    IN  IF first # <<>> THEN first
        ELSE ScanDay(generate_slots_for_date(selected_date + 1), 1,
                     selected_date + 1, people, reservations_dict, <<>>)

\* recommend_slots that goes on to a third day
recommend_slots_ThreeDays(date_str_iso, time_str, people, reservations_dict, today) ==
    LET parsed_date == IF date_str_iso = None THEN today ELSE date_str_iso
        requested_time == IF ParsesIMp(time_str) THEN strptime_IMp(time_str)
                          ELSE strptime_IMp(OPEN_TIME_STR)
        selected_date == IF requested_time >= ClosingHour * 60
                         THEN parsed_date + 1 ELSE parsed_date
        first == ScanDay(generate_slots_for_date(selected_date), 1,
                         selected_date, people, reservations_dict, <<>>)
        second == ScanDay(generate_slots_for_date(selected_date + 1), 1,
                          selected_date + 1, people, reservations_dict, <<>>)
    IN  IF first # <<>> THEN first
        ELSE IF second # <<>> THEN second
        ELSE ScanDay(generate_slots_for_date(selected_date + 2), 1,
                     selected_date + 2, people, reservations_dict, <<>>)

\* recommend_slots with > for >= in the test against closing time
recommend_slots_AfterClosing(date_str_iso, time_str, people, reservations_dict, today) ==
    LET parsed_date == IF date_str_iso = None THEN today ELSE date_str_iso
        requested_time == IF ParsesIMp(time_str) THEN strptime_IMp(time_str)
                          ELSE strptime_IMp(OPEN_TIME_STR)
        selected_date == IF requested_time > ClosingHour * 60
                         THEN parsed_date + 1 ELSE parsed_date
        first == ScanDay(generate_slots_for_date(selected_date), 1,
                         selected_date, people, reservations_dict, <<>>)
    IN  IF first # <<>> THEN first
        ELSE ScanDay(generate_slots_for_date(selected_date + 1), 1,
                     selected_date + 1, people, reservations_dict, <<>>)

recommend_slots(date_str_iso, time_str, people, reservations_dict, today) ==
    LET parsed_date == IF date_str_iso = None THEN today ELSE date_str_iso
        requested_time == IF ParsesIMp(time_str) THEN strptime_IMp(time_str)
                          ELSE strptime_IMp(OPEN_TIME_STR)
        selected_date == IF requested_time >= ClosingHour * 60
                         THEN parsed_date + 1 ELSE parsed_date
        first == ScanDay(generate_slots_for_date(selected_date), 1,
                         selected_date, people, reservations_dict, <<>>)
    IN  IF first # <<>> THEN first
        ELSE ScanDay(generate_slots_for_date(selected_date + 1), 1,
                     selected_date + 1, people, reservations_dict, <<>>)

\* can_cancel_reservation with >= for >
can_cancel_reservation_AtLeast(ud, t) ==
    IF ~Has(ud, "active_reservation") THEN FALSE
    ELSE LET res == ud["active_reservation"]
         IN  IF ~(Has(res, "date") /\ Has(res, "time")) THEN FALSE
             ELSE IF ~ParsesIMp(res["time"]) THEN FALSE
             ELSE BookingInstant(res["date"], res["time"]) - t >= CancelHours * 60

\* can_cancel_reservation(context) at instant t, on the caller's user_data
can_cancel_reservation(ud, t) ==
    IF ~Has(ud, "active_reservation") THEN FALSE
    ELSE LET res == ud["active_reservation"]
         IN  IF ~(Has(res, "date") /\ Has(res, "time")) THEN FALSE
             ELSE IF ~ParsesIMp(res["time"]) THEN FALSE
             ELSE BookingInstant(res["date"], res["time"]) - t > CancelHours * 60

-----------------------------------------------------------------------------
(* Text messages: a text is the sequence of its characters *)

Whitespace == {" "}
Digits == {"0", "1", "2", "3", "4", "5", "6", "7", "8", "9"}

RECURSIVE LStrip(_)
LStrip(t) == IF t # <<>> /\ Head(t) \in Whitespace THEN LStrip(Tail(t)) ELSE t

RECURSIVE RStrip(_)
RStrip(t) ==
    IF t # <<>> /\ t[Len(t)] \in Whitespace
    THEN RStrip(SubSeq(t, 1, Len(t) - 1)) ELSE t

\* str.strip()
Strip(t) == RStrip(LStrip(t))

\* str.replace(c, "")
Remove(t, c) == SelectSeq(t, LAMBDA x : x # c)

StartsWith(t, prefix) ==
    Len(t) >= Len(prefix) /\ SubSeq(t, 1, Len(prefix)) = prefix

\* prefix followed by exactly eight digits
PrefixThenEightDigits(t, prefix) ==
    /\ StartsWith(t, prefix)
    /\ Len(t) = Len(prefix) + 8
    /\ \A i \in (Len(prefix) + 1)..Len(t) : t[i] \in Digits

\* re.fullmatch(r"(?:\+2519\d{8}|2519\d{8}|09\d{8})", phone)
PhoneMatches(phone) ==
    \/ PrefixThenEightDigits(phone, <<"+", "2", "5", "1", "9">>)
    \/ PrefixThenEightDigits(phone, <<"2", "5", "1", "9">>)
    \/ PrefixThenEightDigits(phone, <<"0", "9">>)

\* the text messages the parties send
Texts ==
    { <<" ", "A", "b", "e">>,
      <<"0", "9", " ", "1", "1", "-", "2", "2", "3", "3", "4", "4">> }

-----------------------------------------------------------------------------
(* Inputs of the callbacks *)

Dates == 0..MaxDate

SlotCount == Len(generate_slots_for_date(0))

\* the slots a party picks: the first ones of the day and the last one
SlotChoices ==
    { generate_slots_for_date(0)[i] :
        i \in { j \in 1..SlotCount : j - 1 <= MaxSlotIdx \/ j = SlotCount } }

Today == now \div MinutesPerDay

\* the kind of the message the handler sends last
Say(u, text) == reply' = text

-----------------------------------------------------------------------------
(* State after construction *)

BotInit(parties) ==
    /\ reservations = EmptyDict
    /\ booking_history = EmptyDict
    /\ user_data = [u \in parties |-> EmptyDict]
    /\ reply = "none"

\* the parties that talk to the bot
Users == DOMAIN user_data

\* the run starts the cancellation window before the first slot of day 0
StartNow == strptime_IMp(OPEN_TIME_STR) - CancelHours * 60

FunIdle ==
    /\ in_date = 0
    /\ in_slot = OPEN_TIME_STR
    /\ in_people = 1
    /\ in_res = EmptyDict
    /\ out = "idle"

Init ==
    /\ BotInit(OneParty)
    /\ now = StartNow
    /\ FunIdle

-----------------------------------------------------------------------------
(* Handlers *)

\* the clock advances, two slot widths at a time
TickMinutes == 2 * SLOT_INTERVAL_MINUTES

Tick ==
    /\ now < StartNow + MaxTicks * TickMinutes
    /\ now' = now + TickMinutes
    /\ UNCHANGED <<reservations, booking_history, user_data, reply>>
    /\ UNCHANGED funVars

start(u) ==
    /\ Say(u, "prompt")
    /\ UNCHANGED <<reservations, booking_history, user_data, now>>
    /\ UNCHANGED funVars

Book(u) ==
    /\ Say(u, "prompt")
    /\ UNCHANGED <<reservations, booking_history, user_data, now>>
    /\ UNCHANGED funVars

\* the loop "mark past actives as completed" on one entry
\* MarkCompleted without the test of the status
MarkCompleted_AnyStatus(b, t) ==
    IF ParsesIMp(b.time) /\ BookingInstant(b.date, b.time) < t
    THEN [b EXCEPT !.status = "Completed"]
    ELSE b

\* MarkCompleted with <= for <
MarkCompleted_AtOrBefore(b, t) ==
    IF ParsesIMp(b.time) /\ b.status = "Active" /\ BookingInstant(b.date, b.time) <= t
    THEN [b EXCEPT !.status = "Completed"]
    ELSE b

MarkCompleted(b, t) ==
    IF ParsesIMp(b.time) /\ b.status = "Active" /\ BookingInstant(b.date, b.time) < t
    THEN [b EXCEPT !.status = "Completed"]
    ELSE b

\* my_bookings that walks the histories of all parties
MyBookings_AllParties(u) ==
    /\ UNCHANGED funVars
    /\ booking_history' =
          [v \in DOMAIN booking_history |->
              [i \in 1..Len(booking_history[v]) |->
                  MarkCompleted(booking_history[v][i], now)]]
    /\ Say(u, "history")
    /\ UNCHANGED <<reservations, user_data, now>>

MyBookings(u) ==
    \* the shallow copy shares the stored entries, which the loop changes in
    \* place; the entry appended for an unlisted active reservation is local
    /\ UNCHANGED funVars
    /\ LET stored == Get(booking_history, u, <<>>)
       IN  /\ booking_history' =
                 IF Has(booking_history, u)
                 THEN [booking_history EXCEPT
                         ![u] = [i \in 1..Len(stored) |-> MarkCompleted(stored[i], now)]]
                 ELSE booking_history
           /\ Say(u, "history")
           /\ UNCHANGED <<reservations, user_data, now>>

Help(u) ==
    /\ Say(u, "prompt")
    /\ UNCHANGED <<reservations, booking_history, user_data, now>>
    /\ UNCHANGED funVars

\* lines 378-385 reached by a callback other than help: help_text is unbound
HelpFallThrough(u) ==
    /\ Say(u, "error")
    /\ UNCHANGED <<reservations, booking_history, user_data, now>>
    /\ UNCHANGED funVars

Home(u) ==
    /\ Say(u, "prompt")
    /\ UNCHANGED <<reservations, booking_history, user_data, now>>
    /\ UNCHANGED funVars

DateSelection(u, d) ==
    /\ user_data' = [user_data EXCEPT ![u] = Put(@, "date", d)]
    /\ Say(u, "prompt")
    /\ UNCHANGED <<reservations, booking_history, now>>
    /\ UNCHANGED funVars

TimeSelection(u, slot) ==
    /\ user_data' = [user_data EXCEPT ![u] = Put(Put(@, "time", slot), "people", 1)]
    /\ Say(u, "prompt")
    /\ UNCHANGED <<reservations, booking_history, now>>
    /\ UNCHANGED funVars

Taken(u, slot) ==
    /\ UNCHANGED funVars
    /\ LET recs == recommend_slots(Get(user_data[u], "date", None), slot,
                                   Get(user_data[u], "people", 1), reservations, Today)
       IN  /\ Say(u, "unavailable")
           /\ UNCHANGED <<reservations, booking_history, user_data, now>>

Suggested(u, d, slot) ==
    /\ user_data' = [user_data EXCEPT
                       ![u] = Put(Put(Put(@, "date", d), "time", slot), "people", 1)]
    /\ Say(u, "prompt")
    /\ UNCHANGED <<reservations, booking_history, now>>
    /\ UNCHANGED funVars

PeopleMinus(u) ==
    /\ user_data' = [user_data EXCEPT
                       ![u] = IF Get(@, "people", 1) > 1
                              THEN Put(@, "people", @["people"] - 1) ELSE @]
    /\ Say(u, "prompt")
    /\ UNCHANGED <<reservations, booking_history, now>>
    /\ UNCHANGED funVars

PeoplePlus(u) ==
    /\ Get(user_data[u], "people", 1) < MaxPeople
    /\ user_data' = [user_data EXCEPT
                       ![u] = Put(@, "people", Get(@, "people", 1) + 1)]
    /\ Say(u, "prompt")
    /\ UNCHANGED <<reservations, booking_history, now>>
    /\ UNCHANGED funVars

BackToTime(u) ==
    /\ Say(u, "prompt")
    /\ UNCHANGED <<reservations, booking_history, user_data, now>>
    /\ UNCHANGED funVars

ConfirmPeople(u) ==
    /\ UNCHANGED funVars
    /\ LET ud == user_data[u]
           people == Get(ud, "people", 1)
       IN  IF ~Has(ud, "date") \/ ~Has(ud, "time")
           THEN /\ Say(u, "warning")
                /\ UNCHANGED <<reservations, booking_history, user_data, now>>
           ELSE IF slot_is_free(ud["date"], ud["time"], people, reservations)
           THEN /\ user_data' = [user_data EXCEPT ![u] = Put(@, "awaiting_name", TRUE)]
                /\ Say(u, "prompt")
                /\ UNCHANGED <<reservations, booking_history, now>>
           ELSE /\ Say(u, "unavailable")
                /\ UNCHANGED <<reservations, booking_history, user_data, now>>

BackToDate(u) ==
    /\ Say(u, IF can_cancel_reservation(user_data[u], now)
              THEN "prompt_with_cancel" ELSE "prompt")
    /\ UNCHANGED <<reservations, booking_history, user_data, now>>
    /\ UNCHANGED funVars

BackToPeople(u) ==
    /\ Say(u, "prompt")
    /\ UNCHANGED <<reservations, booking_history, user_data, now>>
    /\ UNCHANGED funVars

\* the number of history entries of all parties
RECURSIVE TotalHistory(_, _)
TotalHistory(hist, keys) ==
    IF keys = {} THEN 0
    ELSE LET k == CHOOSE x \in keys : TRUE
         IN  Len(hist[k]) + TotalHistory(hist, keys \ {k})

\* {"date": date, "time": time_str, "people": people} with its None values left out
ActiveReservationOf(ud) ==
    [k \in ({"date", "time"} \cap DOMAIN ud) \cup {"people"} |->
        IF k = "people" THEN Get(ud, "people", 1) ELSE ud[k]]

\* final_confirm that starts the party's history afresh instead of appending
FinalConfirm_ResetsHistory(u) ==
    /\ UNCHANGED funVars
    /\ LET ud == user_data[u]
           people == Get(ud, "people", 1)
           marked == Put(ud, "active_reservation", ActiveReservationOf(ud))
       IN  IF ~(Has(ud, "name") /\ Has(ud, "phone") /\ Has(ud, "date") /\ Has(ud, "time"))
           THEN /\ user_data' = [user_data EXCEPT ![u] = marked]
                /\ Say(u, "warning")
                /\ UNCHANGED <<reservations, booking_history, now>>
           ELSE /\ TotalHistory(booking_history, DOMAIN booking_history) < MaxHist
                /\ user_data' = [user_data EXCEPT ![u] = marked]
                /\ reservations' =
                      Put(reservations, u,
                          [name |-> ud["name"], phone |-> ud["phone"], date |-> ud["date"],
                           time |-> ud["time"], people |-> people])
                /\ booking_history' =
                      Put(booking_history, u,
                          <<[name |-> ud["name"], phone |-> ud["phone"],
                             date |-> ud["date"], time |-> ud["time"],
                             people |-> people, status |-> "Active"]>>)
                /\ Say(u, "confirmed")
                /\ UNCHANGED now

FinalConfirm(u) ==
    /\ UNCHANGED funVars
    /\ LET ud == user_data[u]
           people == Get(ud, "people", 1)
           marked == Put(ud, "active_reservation", ActiveReservationOf(ud))
       IN  IF ~(Has(ud, "name") /\ Has(ud, "phone") /\ Has(ud, "date") /\ Has(ud, "time"))
           THEN /\ user_data' = [user_data EXCEPT ![u] = marked]
                /\ Say(u, "warning")
                /\ UNCHANGED <<reservations, booking_history, now>>
           ELSE /\ TotalHistory(booking_history, DOMAIN booking_history) < MaxHist
                /\ user_data' = [user_data EXCEPT ![u] = marked]
                /\ reservations' =
                      Put(reservations, u,
                          [name |-> ud["name"], phone |-> ud["phone"], date |-> ud["date"],
                           time |-> ud["time"], people |-> people])
                /\ booking_history' =
                      Put(booking_history, u,
                          Append(Get(booking_history, u, <<>>),
                                 [name |-> ud["name"], phone |-> ud["phone"],
                                  date |-> ud["date"], time |-> ud["time"],
                                  people |-> people, status |-> "Active"]))
                /\ Say(u, "confirmed")
                /\ UNCHANGED now

\* the messages of a commit that may fail to be delivered: the one to the
\* party (its exception leaves the handler) and the one to the administrator
\* (its exception is caught and logged)
NotifyFailures == {"user", "admin"}

\* final_confirm that takes the reservation back when a message fails
FinalConfirmNotifyFails_RollsBack(u, who) ==
    /\ UNCHANGED funVars
    /\ LET ud == user_data[u]
           marked == Put(ud, "active_reservation", ActiveReservationOf(ud))
       IN  /\ Has(ud, "name") /\ Has(ud, "phone") /\ Has(ud, "date") /\ Has(ud, "time")
           /\ TotalHistory(booking_history, DOMAIN booking_history) < MaxHist
           /\ user_data' = [user_data EXCEPT ![u] = marked]
           /\ reservations' = Del(reservations, u)
           /\ UNCHANGED booking_history
           /\ Say(u, IF who = "user" THEN "confirm_undelivered"
                     ELSE "confirmed_admin_failed")
           /\ UNCHANGED now

\* final_confirm past its validation, with the confirmation to the party
\* (line 557) or the message to the administrator (line 584) failing
FinalConfirmNotifyFails(u, who) ==
    /\ UNCHANGED funVars
    /\ LET ud == user_data[u]
           people == Get(ud, "people", 1)
           marked == Put(ud, "active_reservation", ActiveReservationOf(ud))
       IN  /\ Has(ud, "name") /\ Has(ud, "phone") /\ Has(ud, "date") /\ Has(ud, "time")
           /\ TotalHistory(booking_history, DOMAIN booking_history) < MaxHist
           /\ user_data' = [user_data EXCEPT ![u] = marked]
           /\ reservations' =
                 Put(reservations, u,
                     [name |-> ud["name"], phone |-> ud["phone"], date |-> ud["date"],
                      time |-> ud["time"], people |-> people])
           /\ booking_history' =
                 Put(booking_history, u,
                     Append(Get(booking_history, u, <<>>),
                            [name |-> ud["name"], phone |-> ud["phone"],
                             date |-> ud["date"], time |-> ud["time"],
                             people |-> people, status |-> "Active"]))
           /\ Say(u, IF who = "user" THEN "confirm_undelivered"
                     ELSE "confirmed_admin_failed")
           /\ UNCHANGED now

\* the loop "update history": the first matching Active entry becomes Cancelled
CancelInHistory(user_hist, cancelled) ==
    LET Matches(b) == /\ b.date = cancelled.date
                      /\ b.time = cancelled.time
                      /\ b.status = "Active"
        hits == {i \in 1..Len(user_hist) : Matches(user_hist[i])}
    IN  IF hits = {} THEN user_hist
        ELSE LET first == CHOOSE i \in hits : \A j \in hits : i <= j
             IN  [user_hist EXCEPT ![first].status = "Cancelled"]

\* cancel_booking whose history update is not under `if cancelled`
CancelBooking_AlwaysMarks(u) ==
    /\ user_data' = [user_data EXCEPT ![u] = Del(@, "active_reservation")]
    /\ IF Has(reservations, u)
       THEN /\ reservations' = Del(reservations, u)
            /\ booking_history' =
                  IF Has(booking_history, u)
                  THEN [booking_history EXCEPT
                          ![u] = CancelInHistory(@, reservations[u])]
                  ELSE booking_history
            /\ Say(u, "cancelled")
       ELSE /\ Say(u, "nothing_to_cancel")
            /\ booking_history' =
                  IF Has(booking_history, u)
                  THEN [booking_history EXCEPT
                          ![u] = [i \in 1..Len(@) |->
                                    IF @[i].status = "Active"
                                    THEN [@[i] EXCEPT !.status = "Cancelled"]
                                    ELSE @[i]]]
                  ELSE booking_history
            /\ UNCHANGED reservations
    /\ UNCHANGED now
    /\ UNCHANGED funVars

CancelBooking(u) ==
    /\ user_data' = [user_data EXCEPT ![u] = Del(@, "active_reservation")]
    /\ IF Has(reservations, u)
       THEN /\ reservations' = Del(reservations, u)
            /\ booking_history' =
                  IF Has(booking_history, u)
                  THEN [booking_history EXCEPT
                          ![u] = CancelInHistory(@, reservations[u])]
                  ELSE booking_history
            /\ Say(u, "cancelled")
       ELSE /\ Say(u, "nothing_to_cancel")
            /\ UNCHANGED <<reservations, booking_history>>
    /\ UNCHANGED now
    /\ UNCHANGED funVars

\* cancel_booking of a stored reservation, with the message to the
\* administrator (line 620) or the one to the party (line 625) failing
CancelBookingNotifyFails(u, who) ==
    /\ Has(reservations, u)
    /\ user_data' = [user_data EXCEPT ![u] = Del(@, "active_reservation")]
    /\ reservations' = Del(reservations, u)
    /\ booking_history' =
          IF Has(booking_history, u)
          THEN [booking_history EXCEPT ![u] = CancelInHistory(@, reservations[u])]
          ELSE booking_history
    /\ Say(u, IF who = "user" THEN "cancel_undelivered" ELSE "cancelled_admin_failed")
    /\ UNCHANGED now
    /\ UNCHANGED funVars

Fallback(u) ==
    /\ Say(u, "warning")
    /\ UNCHANGED <<reservations, booking_history, user_data, now>>
    /\ UNCHANGED funVars

handle_text(u, message) ==
    /\ UNCHANGED funVars
    /\ LET text == Strip(message)
           ud == user_data[u]
           phone == Remove(Remove(text, " "), "-")
       IN  /\ UNCHANGED <<reservations, booking_history, now>>
           /\ IF Get(ud, "awaiting_name", FALSE)
              THEN IF text = <<>>
                   THEN Say(u, "warning") /\ UNCHANGED user_data
                   ELSE /\ user_data' =
                             [user_data EXCEPT
                                ![u] = Put(Put(Put(@, "name", text),
                                               "awaiting_name", FALSE),
                                           "awaiting_phone", TRUE)]
                        /\ Say(u, "prompt")
              ELSE IF Get(ud, "awaiting_phone", FALSE)
              THEN IF ~PhoneMatches(phone)
                   THEN Say(u, "warning") /\ UNCHANGED user_data
                   ELSE /\ user_data' =
                             [user_data EXCEPT
                                ![u] = Put(Put(@, "phone", phone),
                                           "awaiting_phone", FALSE)]
                        /\ Say(u, IF Has(ud, "name") /\ Has(ud, "date") /\ Has(ud, "time")
                                  THEN "prompt" ELSE "warning")
              ELSE Say(u, "prompt") /\ UNCHANGED user_data

\* one disjunct for each handler and, within handle_buttons, for each branch
Next ==
    \/ Tick
    \/ \E u \in Users : start(u)
    \/ \E u \in Users : Book(u)
    \/ \E u \in Users : MyBookings(u)
    \/ \E u \in Users : Help(u)
    \/ \E u \in Users : HelpFallThrough(u)
    \/ \E u \in Users : Home(u)
    \/ \E u \in Users, d \in Dates : DateSelection(u, d)
    \/ \E u \in Users, s \in SlotChoices : TimeSelection(u, s)
    \/ \E u \in Users, s \in SlotChoices : Taken(u, s)
    \/ \E u \in Users, d \in Dates, s \in SlotChoices : Suggested(u, d, s)
    \/ \E u \in Users : PeopleMinus(u)
    \/ \E u \in Users : PeoplePlus(u)
    \/ \E u \in Users : BackToTime(u)
    \/ \E u \in Users : ConfirmPeople(u)
    \/ \E u \in Users : BackToDate(u)
    \/ \E u \in Users : BackToPeople(u)
    \/ \E u \in Users : FinalConfirm(u)
    \/ \E u \in Users : CancelBooking(u)
    \/ \E u \in Users, who \in NotifyFailures : FinalConfirmNotifyFails(u, who)
    \/ \E u \in Users, who \in NotifyFailures : CancelBookingNotifyFails(u, who)
    \/ \E u \in Users : Fallback(u)
    \/ \E u \in Users, t \in Texts : handle_text(u, t)

Spec == Init /\ [][Next]_vars

-----------------------------------------------------------------------------
(* Two parties taking the booking flow and cancelling: the events that     *)
(* write the reservation store or a party's booking details                *)

DatesTwo == {0}
SlotsTwo == {generate_slots_for_date(0)[1]}
TextsTwo == {<<"0", "9", " ", "1", "1", "-", "2", "2", "3", "3", "4", "4">>}

InitTwo ==
    /\ BotInit(TwoParties)
    /\ now = StartNow
    /\ FunIdle

NextTwo ==
    \/ \E u \in Users, d \in DatesTwo : DateSelection(u, d)
    \/ \E u \in Users, s \in SlotsTwo : TimeSelection(u, s)
    \/ \E u \in Users : PeoplePlus(u)
    \/ \E u \in Users : PeopleMinus(u)
    \/ \E u \in Users : ConfirmPeople(u)
    \/ \E u \in Users, t \in TextsTwo : handle_text(u, t)
    \/ \E u \in Users : FinalConfirm(u)
    \/ \E u \in Users : CancelBooking(u)

SpecTwo == InitTwo /\ [][NextTwo]_vars

-----------------------------------------------------------------------------
(* Two parties that have both passed the availability check of             *)
(* confirm_people, for overlapping spans on one date, and have not yet     *)
(* committed: the state is the one DateSelection, TimeSelection,           *)
(* PeoplePlus and a passing ConfirmPeople leave behind on an empty store.  *)

RaceSlots == {generate_slots_for_date(0)[i] : i \in 1..(MaxSlotIdx + 2)}

Checked(d, slot, people) ==
    [date |-> d, time |-> slot, people |-> people, awaiting_name |-> TRUE]

StartIndex(r) == ListIndex(generate_slots_for_date(r.date), r.time)

\* the spans [start, start + people) of two bookings on one date intersect
Overlap(r1, r2) ==
    /\ r1.date = r2.date
    /\ StartIndex(r1) < StartIndex(r2) + r2.people
    /\ StartIndex(r2) < StartIndex(r1) + r1.people

InitRace ==
    /\ reservations = EmptyDict
    /\ booking_history = EmptyDict
    /\ \E s1 \in RaceSlots, s2 \in RaceSlots, p1 \in 1..MaxPeople, p2 \in 1..MaxPeople :
          /\ slot_is_free(0, s1, p1, EmptyDict)
          /\ slot_is_free(0, s2, p2, EmptyDict)
          /\ Overlap(Checked(0, s1, p1), Checked(0, s2, p2))
          /\ user_data = [u \in TwoParties |->
                            IF u = 1 THEN Checked(0, s1, p1) ELSE Checked(0, s2, p2)]
    /\ reply = "prompt"
    /\ now = StartNow
    /\ FunIdle

\* the remaining steps of the two parties: name, phone, final_confirm
NextRace ==
    \/ \E u \in Users, t \in Texts : handle_text(u, t)
    \/ \E u \in Users : FinalConfirm(u)

SpecRace == InitRace /\ [][NextRace]_vars

-----------------------------------------------------------------------------
(* Two parties at the review message: each has picked a date and a slot,   *)
(* passed confirm_people for one person against the empty store and given  *)
(* a name and a phone number.  From there they change the party size,      *)
(* commit and cancel.                                                      *)

Reviewed(d, slot, name, phone) ==
    [date |-> d, time |-> slot, people |-> 1, awaiting_name |-> FALSE,
     awaiting_phone |-> FALSE, name |-> name, phone |-> phone]

\* what handle_text stores for a text sent as a name and as a phone number
NameOf(message) == Strip(message)

PhoneOf(message) == Remove(Remove(Strip(message), " "), "-")

InitCommit ==
    /\ reservations = EmptyDict
    /\ booking_history = EmptyDict
    /\ \E d1 \in Dates, d2 \in Dates, s1 \in SlotChoices, s2 \in SlotChoices,
          n \in Texts, t \in Texts :
          /\ NameOf(n) # <<>>
          /\ PhoneMatches(PhoneOf(t))
          /\ user_data = [u \in TwoParties |->
                            IF u = 1 THEN Reviewed(d1, s1, NameOf(n), PhoneOf(t))
                                     ELSE Reviewed(d2, s2, NameOf(n), PhoneOf(t))]
    /\ reply = "prompt"
    /\ now = StartNow
    /\ FunIdle

NextCommit ==
    \/ \E u \in Users : PeoplePlus(u)
    \/ \E u \in Users : PeopleMinus(u)
    \/ \E u \in Users : FinalConfirm(u)
    \/ \E u \in Users : CancelBooking(u)

SpecCommit == InitCommit /\ [][NextCommit]_vars

-----------------------------------------------------------------------------
(* One party that books, cancels and lists its history while the clock     *)
(* advances.  The party starts either at the review message or right after *)
(* picking a slot, where final_confirm is rejected for want of a name.     *)

TimePicked(d, slot) == [date |-> d, time |-> slot, people |-> 1]

InitHistory ==
    /\ reservations = EmptyDict
    /\ booking_history = EmptyDict
    /\ \E d \in Dates, s \in SlotChoices, n \in Texts, t \in Texts :
          /\ NameOf(n) # <<>>
          /\ PhoneMatches(PhoneOf(t))
          /\ \/ user_data = [u \in OneParty |-> Reviewed(d, s, NameOf(n), PhoneOf(t))]
             \/ user_data = [u \in OneParty |-> TimePicked(d, s)]
    /\ reply = "prompt"
    /\ now \in {StartNow, StartNow + SLOT_INTERVAL_MINUTES}
    /\ FunIdle

NextHistory ==
    \/ Tick
    \/ \E u \in Users, s \in SlotChoices : TimeSelection(u, s)
    \/ \E u \in Users, s \in SlotChoices : Taken(u, s)
    \/ \E u \in Users : ConfirmPeople(u)
    \/ \E u \in Users : FinalConfirm(u)
    \/ \E u \in Users : CancelBooking(u)
    \/ \E u \in Users : MyBookings(u)

SpecHistory == InitHistory /\ [][NextHistory]_vars

-----------------------------------------------------------------------------
(* Two parties at the review message that commit, cancel and list their    *)
(* histories while the clock advances.                                     *)

NextParties ==
    \/ Tick
    \/ \E u \in Users : FinalConfirm(u)
    \/ \E u \in Users : CancelBooking(u)
    \/ \E u \in Users : MyBookings(u)

SpecParties == InitCommit /\ [][NextParties]_vars

-----------------------------------------------------------------------------
(* The daily summary.  Two parties at the review message change the party  *)
(* size, commit and cancel; the clock stands at the time the job queue     *)
(* runs send_daily_summary.                                                *)

\* the lines under "Reserved Slots": today's reservations
booked(reservations_dict, today_str) ==
    { [time |-> reservations_dict[k].time, people |-> reservations_dict[k].people,
       name |-> reservations_dict[k].name] :
          k \in {x \in DOMAIN reservations_dict : reservations_dict[x].date = today_str} }

\* the lines under "Open Slots": the slots no reservation of today starts at
open_slots(reservations_dict, today_str) ==
    LET slots == generate_slots_for_date(today_str)
    IN  SelectSeq(slots,
                  LAMBDA s : \A k \in DOMAIN reservations_dict :
                                reservations_dict[k].date = today_str
                                   => reservations_dict[k].time # s)

send_daily_summary ==
    /\ now % MinutesPerDay = SummaryHour * 60
    /\ reply' = "summary"
    /\ UNCHANGED <<reservations, booking_history, user_data, now>>
    /\ UNCHANGED funVars

InitSummary ==
    /\ reservations = EmptyDict
    /\ booking_history = EmptyDict
    /\ \E s1 \in SlotChoices, s2 \in SlotChoices, n \in Texts, t \in Texts :
          /\ NameOf(n) # <<>>
          /\ PhoneMatches(PhoneOf(t))
          /\ user_data = [u \in TwoParties |->
                            IF u = 1 THEN Reviewed(0, s1, NameOf(n), PhoneOf(t))
                                     ELSE Reviewed(0, s2, NameOf(n), PhoneOf(t))]
    /\ reply = "prompt"
    /\ now = SummaryHour * 60
    /\ FunIdle

NextSummary ==
    \/ \E u \in Users : PeoplePlus(u)
    \/ \E u \in Users : PeopleMinus(u)
    \/ \E u \in Users : FinalConfirm(u)
    \/ \E u \in Users : CancelBooking(u)
    \/ send_daily_summary

SpecSummary == InitSummary /\ [][NextSummary]_vars

-----------------------------------------------------------------------------
(* One party that books and cancels while messages to it and to the        *)
(* administrator may fail to be delivered.                                 *)

NextNotify ==
    \/ \E u \in Users, s \in SlotChoices : TimeSelection(u, s)
    \/ \E u \in Users : FinalConfirm(u)
    \/ \E u \in Users : CancelBooking(u)
    \/ \E u \in Users, who \in NotifyFailures : FinalConfirmNotifyFails(u, who)
    \/ \E u \in Users, who \in NotifyFailures : CancelBookingNotifyFails(u, who)

SpecNotify == InitHistory /\ [][NextNotify]_vars

-----------------------------------------------------------------------------
(* One party that picks dates and slots and presses final_confirm without  *)
(* giving a name, which records the active reservation but stores nothing, *)
(* while the clock advances; back_to_date renders the cancel button from   *)
(* can_cancel_reservation.                                                 *)

NextCancel ==
    \/ Tick
    \/ \E u \in Users, d \in Dates : DateSelection(u, d)
    \/ \E u \in Users, s \in SlotChoices : TimeSelection(u, s)
    \/ \E u \in Users : FinalConfirm(u)
    \/ \E u \in Users : BackToDate(u)
    \/ \E u \in Users : CancelBooking(u)

SpecCancel == Init /\ [][NextCancel]_vars

-----------------------------------------------------------------------------
(* slot_is_free as a function: the inputs are drawn, then it is applied *)

FunDates == {0, 1}

\* the start slots of the stored reservations: the second and the last but one
OtherSlots ==
    { generate_slots_for_date(0)[i] : i \in {2, SlotCount - 1} }

Others ==
    [date : FunDates, time : OtherSlots, people : 1..MaxPeople]

ReservationSets ==
    UNION { [1..n -> Others] : n \in 0..MaxOthers }

InitFree ==
    /\ BotInit(OneParty)
    /\ now = StartNow
    /\ in_date \in FunDates
    /\ in_slot \in {generate_slots_for_date(0)[i] : i \in 1..SlotCount}
    /\ in_people \in 1..MaxPeople
    /\ in_res \in ReservationSets
    /\ out = "idle"

CheckAvailability ==
    /\ out = "idle"
    /\ out' = IF slot_is_free(in_date, in_slot, in_people, in_res)
              THEN "free" ELSE "taken"
    /\ UNCHANGED <<in_date, in_slot, in_people, in_res>>
    /\ UNCHANGED botVars

NextFree == CheckAvailability

SpecFree == InitFree /\ [][NextFree]_vars

-----------------------------------------------------------------------------
(* The enumeration of a day and the availability of a candidate in it, as  *)
(* times_keyboard computes them; the candidate may be a time between two   *)
(* slots.                                                                  *)

\* the slots of the day and "07:40 PM", which lies between the last two
Candidates ==
    {generate_slots_for_date(0)[i] : i \in 1..SlotCount}
        \cup {[h |-> 7, m |-> 40, p |-> "PM"]}

OneOrNone ==
    UNION { [1..n -> Others] : n \in 0..1 }

InitSlots ==
    /\ BotInit(OneParty)
    /\ now = StartNow
    /\ in_date \in FunDates \cup {None}
    /\ in_slot \in Candidates
    /\ in_people \in 1..MaxPeople
    /\ in_res \in OneOrNone
    /\ out = [state |-> "idle", slots |-> <<>>, free |-> FALSE]

Enumerate ==
    /\ out.state = "idle"
    /\ out' = [state |-> "done",
               slots |-> generate_slots_for_date(in_date),
               free |-> slot_is_free(in_date, in_slot, in_people, in_res)]
    /\ UNCHANGED <<in_date, in_slot, in_people, in_res>>
    /\ UNCHANGED botVars

NextSlots == Enumerate

SpecSlots == InitSlots /\ [][NextSlots]_vars

-----------------------------------------------------------------------------
(* slot_is_free against stored reservations whose time is not written the  *)
(* way the enumeration writes it                                           *)

\* "08:40 AM" as enumerated, "08:40 am", "08:10 AM" (between two slots) and
\* "00:00 AM" (which strptime rejects)
StoredTimes ==
    { [h |-> 8, m |-> 40, p |-> "AM"], [h |-> 8, m |-> 40, p |-> "am"],
      [h |-> 8, m |-> 10, p |-> "AM"], [h |-> 0, m |-> 0, p |-> "AM"] }

Stored == [date : FunDates, time : StoredTimes, people : {1}]

StoredSets ==
    UNION { [1..n -> Stored] : n \in 0..MaxOthers }

InitStored ==
    /\ BotInit(OneParty)
    /\ now = StartNow
    /\ in_date \in FunDates
    /\ in_slot \in {generate_slots_for_date(0)[i] : i \in 1..SlotCount}
    /\ in_people \in 1..MaxPeople
    /\ in_res \in StoredSets
    /\ out = "idle"

NextStored == CheckAvailability

SpecStored == InitStored /\ [][NextStored]_vars

-----------------------------------------------------------------------------
(* recommend_slots as a function of its arguments *)

\* the date argument: a date, or None when the party has picked none
SuggestDates == {None, 0, 1}

\* the desired time: the first slot, the last slot before closing, closing
SuggestTimes ==
    { generate_slots_for_date(0)[i] : i \in {1, SlotCount - 1, SlotCount} }

\* stored reservations from the first slot on: a party of two, and parties
\* that fill the day but its last three slots, or all of it
Blocks ==
    [date : 0..2, time : {OPEN_TIME_STR}, people : {2, SlotCount - 3, SlotCount}]

BlockSets ==
    UNION { [1..n -> Blocks] : n \in 0..MaxOthers }

InitSuggest ==
    /\ BotInit(OneParty)
    /\ now = StartNow
    /\ in_date \in SuggestDates
    /\ in_slot \in SuggestTimes
    /\ in_people \in 1..MaxPeople
    /\ in_res \in BlockSets
    /\ out = [state |-> "idle", results |-> <<>>]

Recommend ==
    /\ out.state = "idle"
    /\ out' = [state |-> "done",
               results |-> recommend_slots(in_date, in_slot, in_people, in_res, Today)]
    /\ UNCHANGED <<in_date, in_slot, in_people, in_res>>
    /\ UNCHANGED botVars

NextSuggest == Recommend

SpecSuggest == InitSuggest /\ [][NextSuggest]_vars

-----------------------------------------------------------------------------
(* Properties *)

\* party u's final_confirm has written a reservation in this step
Committed(u) ==
    Len(Get(booking_history', u, <<>>)) > Len(Get(booking_history, u, <<>>))

\* party u's reservation has been removed from the store in this step
Removed(u) == Has(reservations, u) /\ ~Has(reservations', u)

\* minutes from now to the start of the slot of a booking
MinutesAhead(r) == BookingInstant(r.date, r.time) - now

FitsAndDisjoint(d, slot, people, res) ==
    LET c == CHOOSE i \in 0..(SlotCount - 1) : generate_slots_for_date(d)[i + 1] = slot
    IN  /\ c + people <= SlotCount
        /\ \A k \in DOMAIN res :
              res[k].date = d =>
                 LET o == CHOOSE i \in 0..(SlotCount - 1) :
                              generate_slots_for_date(d)[i + 1] = res[k].time
                 IN  c + people <= o \/ c >= o + res[k].people

\* C5: slot_is_free returns true exactly when c + P <= slotCount and, for
\* every reservation on the date with start o and size Q, c + P <= o or
\* c >= o + Q.
C5_OverlapRule ==
    out # "idle" =>
        ((out = "free") <=> FitsAndDisjoint(in_date, in_slot, in_people, in_res))

\* a candidate that starts exactly where a stored span ends has been accepted,
\* with a stored span on another date in the set as well
C5_Witness ==
    /\ out = "free"
    /\ \E k \in DOMAIN in_res :
          /\ in_res[k].date = in_date
          /\ StartIndex([date |-> in_date, time |-> in_slot])
                = StartIndex(in_res[k]) + in_res[k].people
    /\ \E k \in DOMAIN in_res : in_res[k].date # in_date

\* C6: for as long as a committed reservation stays in the store,
\* slot_is_free on its date, slot and party size returns false.
C6_CommittedSpanNotFree ==
    \A u \in DOMAIN reservations :
        ~slot_is_free(reservations[u].date, reservations[u].time,
                      reservations[u].people, reservations)

\* final_confirm has just committed a reservation whose span fits in the day
C6_Witness ==
    /\ reply = "confirmed"
    /\ \E u \in DOMAIN reservations :
          StartIndex(reservations[u]) + reservations[u].people <= SlotCount

HasActiveSlot(u) ==
    /\ Has(user_data[u], "active_reservation")
    /\ Has(user_data[u]["active_reservation"], "date")
    /\ Has(user_data[u]["active_reservation"], "time")

\* the party's active reservation starts exactly d minutes from now
ActiveStartsIn(u, d) ==
    HasActiveSlot(u) /\ MinutesAhead(user_data[u]["active_reservation"]) = d

\* C10: with the slot start exactly two hours ahead can_cancel_reservation
\* returns false; it returns true only for more than two hours.
C10_StrictTwoHours ==
    \A u \in Users :
        /\ ActiveStartsIn(u, 2 * 60) => ~can_cancel_reservation(user_data[u], now)
        /\ can_cancel_reservation(user_data[u], now) =>
              /\ HasActiveSlot(u)
              /\ MinutesAhead(user_data[u]["active_reservation"]) > 2 * 60

\* back_to_date has rendered its keyboard for a party whose active
\* reservation starts exactly two hours from now
C10_Witness ==
    /\ reply = "prompt"
    /\ now = StartNow
    /\ \E u \in Users : ActiveStartsIn(u, 2 * 60)

-----------------------------------------------------------------------------
(* History bookkeeping *)

HistoryOf(hist, u) == Get(hist, u, <<>>)

\* the history entry final_confirm appends for the reservation r
ActiveEntryOf(r) ==
    [k \in DOMAIN r \cup {"status"} |-> IF k = "status" THEN "Active" ELSE r[k]]

Terminal(b) == b.status \in {"Cancelled", "Completed"}

HasStatus(u, st) ==
    \E i \in 1..Len(HistoryOf(booking_history, u)) : booking_history[u][i].status = st

\* C11: a successful final_confirm of a party stores the new reservation for
\* it and appends exactly one Active entry with the same date, slot and
\* party size to its history; no other step changes the length of a history.
C11_CreateAppendsOneActive ==
    [][\A u \in Users :
         LET before == HistoryOf(booking_history, u)
             after == HistoryOf(booking_history', u)
         IN  IF FinalConfirm(u) /\ reply' = "confirmed"
             THEN /\ Has(reservations', u)
                  /\ reservations'[u].date = user_data[u]["date"]
                  /\ reservations'[u].time = user_data[u]["time"]
                  /\ reservations'[u].people = Get(user_data[u], "people", 1)
                  /\ after = Append(before, ActiveEntryOf(reservations'[u]))
             ELSE Len(after) = Len(before)]_vars

\* a second reservation has been committed on top of a history that a
\* listing or a cancel has already changed
C11_Witness ==
    /\ reply = "confirmed"
    /\ \E u \in Users :
          /\ Len(HistoryOf(booking_history, u)) >= 2
          /\ Terminal(booking_history[u][1])

C14_TerminalStatuses ==
    [][\A u \in DOMAIN booking_history :
         \A i \in 1..Len(booking_history[u]) :
            Terminal(booking_history[u][i]) =>
               /\ Has(booking_history', u)
               /\ Len(booking_history'[u]) >= i
               /\ booking_history'[u][i] = booking_history[u][i]]_vars

\* a listing has run after the slot start of a Cancelled entry has passed
C14_Witness ==
    /\ reply = "history"
    /\ \E u \in Users :
          \E i \in 1..Len(HistoryOf(booking_history, u)) :
              /\ booking_history[u][i].status = "Cancelled"
              /\ BookingInstant(booking_history[u][i].date,
                                booking_history[u][i].time) < now

\* C15: a listing by a party at time now turns exactly its Active entries
\* whose slot start is strictly before now into Completed, in the stored
\* history; no step turns any other entry into Completed.
C15_LazyCompletion ==
    [][\A u \in Users :
         LET before == HistoryOf(booking_history, u)
             after == HistoryOf(booking_history', u)
             Past(b) == BookingInstant(b.date, b.time) < now
         IN  /\ MyBookings(u) =>
                   /\ Len(after) = Len(before)
                   /\ \A i \in 1..Len(before) :
                         after[i] = IF before[i].status = "Active" /\ Past(before[i])
                                    THEN [before[i] EXCEPT !.status = "Completed"]
                                    ELSE before[i]
             /\ \A i \in 1..Len(before) :
                   (/\ i <= Len(after)
                    /\ after[i].status = "Completed"
                    /\ before[i].status # "Completed")
                   => (before[i].status = "Active" /\ Past(before[i]))]_vars

\* a listing has completed a past entry
C15_Witness ==
    /\ reply = "history"
    /\ \E u \in Users : HasStatus(u, "Completed")

-----------------------------------------------------------------------------
(* Suggestions *)

\* the date the request is for, and the date the search starts on
Requested == IF in_date = None THEN Today ELSE in_date

AtOrAfterClosing == strptime_IMp(in_slot) >= strptime_IMp(CLOSE_TIME_STR)

Anchor == IF AtOrAfterClosing THEN Requested + 1 ELSE Requested

\* the indices of the slots of a day that slot_is_free accepts for the request
FreeSlots(day) ==
    { i \in 1..SlotCount :
        slot_is_free(day, generate_slots_for_date(day)[i], in_people, in_res) }

Min(a, b) == IF a <= b THEN a ELSE b

\* the chronologically first min(5, n) free slots of a day, in order
FirstFit(day) ==
    LET free == FreeSlots(day)
        Nth(j) == CHOOSE i \in free : Cardinality({x \in free : x <= i}) = j
    IN  [j \in 1..Min(RECOMMEND_LIMIT, Cardinality(free)) |->
            <<generate_slots_for_date(day)[Nth(j)], day>>]

DateOf(entry) == entry[2]

\* C16: the result of recommend_slots is the list of the first min(5, n) free
\* slots of the searched date, ascending and without duplicates; with one
\* reservation of size 2 at 08:00 AM and a request for one person the first
\* result is 09:20 AM on that date.
C16_FirstFit ==
    out.state = "done" =>
        /\ out.results # <<>> => out.results = FirstFit(DateOf(out.results[1]))
        /\ (/\ in_res = <<[date |-> Requested, time |-> OPEN_TIME_STR, people |-> 2]>>
            /\ in_people = 1
            /\ ~AtOrAfterClosing)
           => (/\ out.results # <<>>
               /\ out.results[1] = <<[h |-> 9, m |-> 20, p |-> "AM"], Requested>>)

\* fewer than five slots are free behind a stored reservation, the desired
\* time is late in the day and the result starts at the first free slot
C16_Witness ==
    /\ out.state = "done"
    /\ in_slot # OPEN_TIME_STR
    /\ Len(out.results) \in 1..(RECOMMEND_LIMIT - 1)
    /\ out.results[1][1] # in_slot

\* C17: recommend_slots never returns more than RECOMMEND_LIMIT entries.
C17_ResultCap ==
    out.state = "done" => Len(out.results) <= RECOMMEND_LIMIT

\* the scan has stopped at the limit with more free slots left on the day
C17_Witness ==
    /\ out.state = "done"
    /\ Len(out.results) = RECOMMEND_LIMIT
    /\ Cardinality(FreeSlots(DateOf(out.results[1]))) > RECOMMEND_LIMIT

\* C18: all entries of a result carry one date: the anchor date when it has a
\* free slot, the day after when only that one has, and the result is empty
\* exactly when neither has.
C18_TwoDays ==
    out.state = "done" =>
        /\ \A i, j \in 1..Len(out.results) :
              DateOf(out.results[i]) = DateOf(out.results[j])
        /\ FreeSlots(Anchor) # {} =>
              (out.results # <<>> /\ DateOf(out.results[1]) = Anchor)
        /\ (FreeSlots(Anchor) = {} /\ FreeSlots(Anchor + 1) # {}) =>
              (out.results # <<>> /\ DateOf(out.results[1]) = Anchor + 1)
        /\ (out.results = <<>>) <=>
              (FreeSlots(Anchor) = {} /\ FreeSlots(Anchor + 1) = {})

\* the anchor date and the day after are full, a later day is not, and the
\* result is empty
C18_Witness ==
    /\ out.state = "done"
    /\ out.results = <<>>
    /\ FreeSlots(Anchor + 2) # {}

\* C19: with a desired time at or after closing no entry of the result is on
\* the requested date and the search starts on the day after; with a desired
\* time before closing the search starts on the requested date.
C19_AnchorShift ==
    out.state = "done" =>
        /\ AtOrAfterClosing =>
              /\ \A i \in 1..Len(out.results) : DateOf(out.results[i]) # Requested
              /\ FreeSlots(Requested + 1) # {} =>
                    (out.results # <<>> /\ DateOf(out.results[1]) = Requested + 1)
        /\ ~AtOrAfterClosing =>
              (FreeSlots(Requested) # {} =>
                    (out.results # <<>> /\ DateOf(out.results[1]) = Requested))

\* the desired time is the last enumerated slot, 08:00 PM, the requested date
\* has free slots and the result is on the day after
C19_Witness ==
    /\ out.state = "done"
    /\ in_slot = CLOSE_TIME_STR
    /\ FreeSlots(Requested) # {}
    /\ out.results # <<>>
    /\ DateOf(out.results[1]) = Requested + 1

-----------------------------------------------------------------------------
(* Stored reservations with a foreign time *)

Enumerated(d, t) ==
    \E i \in 1..SlotCount : generate_slots_for_date(d)[i] = t

\* t is not enumerated, neither as recorded nor re-formatted
Unlocatable(d, t) ==
    /\ ~Enumerated(d, t)
    /\ ~(ParsesIMp(t) /\ Enumerated(d, strftime_IMp(strptime_IMp(t))))

OnCheckedDate == {k \in DOMAIN in_res : in_res[k].date = in_date}

\* C20 as stated: a reservation on the checked date whose recorded slot is
\* not a member of the enumeration makes slot_is_free return false for every
\* candidate and party size.
C20_FailClosed ==
    (out # "idle" /\ \E k \in OnCheckedDate : ~Enumerated(in_date, in_res[k].time))
        => out = "taken"

\* C20 as amended: a reservation on the checked date whose recorded slot is
\* located neither as recorded nor after re-formatting makes slot_is_free
\* return false for every candidate and party size; reservations on other
\* dates do not change the result.
C20_FailClosedUnlocatable ==
    out # "idle" =>
        /\ (\E k \in OnCheckedDate : Unlocatable(in_date, in_res[k].time))
              => out = "taken"
        /\ (out = "free") <=>
              slot_is_free(in_date, in_slot, in_people,
                           [k \in OnCheckedDate |-> in_res[k]])

\* a candidate away from every located span has been refused because of a
\* reservation that strptime rejects, and one on the other date has been
\* accepted next to the same reservation
C20_Witness ==
    /\ out = "taken"
    /\ in_people = 1
    /\ in_slot = CLOSE_TIME_STR
    /\ \E k \in OnCheckedDate : ~ParsesIMp(in_res[k].time)
    /\ \E k \in DOMAIN in_res : k \notin OnCheckedDate

-----------------------------------------------------------------------------
(* Enumeration and closing boundary *)

NoneOnDate == \A k \in DOMAIN in_res : in_res[k].date # in_date

SEVEN_FORTY_PM == [h |-> 7, m |-> 40, p |-> "PM"]

\* C21 as stated: with nothing stored on the date a request for one person
\* at 07:40 PM is free, 07:40 PM being the last slot of the enumeration.
C21_SevenFortyFree ==
    (out.state = "done" /\ in_slot = SEVEN_FORTY_PM /\ in_people = 1 /\ NoneOnDate)
        => (out.free /\ out.slots[Len(out.slots)] = SEVEN_FORTY_PM)

\* C21 as amended: with nothing stored on the date a request for one person
\* at 08:00 PM is free, 08:00 PM being the last slot of the enumeration, so
\* that needed_end equals the slot count; 07:40 PM is not a slot and a
\* request for it is refused.
C21_LastSlotFree ==
    (out.state = "done" /\ NoneOnDate) =>
        /\ out.slots[Len(out.slots)] = CLOSE_TIME_STR
        /\ (in_slot = CLOSE_TIME_STR /\ in_people = 1) =>
              (out.free /\ ListIndex(out.slots, in_slot) + in_people = Len(out.slots))
        /\ (in_slot = CLOSE_TIME_STR /\ in_people > 1) => ~out.free
        /\ in_slot = SEVEN_FORTY_PM =>
              (~out.free /\ ListIndex(out.slots, in_slot) = -1)

\* one person has been accepted at 08:00 PM next to a reservation on the
\* other date
C21_Witness ==
    /\ out.state = "done"
    /\ out.free
    /\ in_slot = CLOSE_TIME_STR
    /\ in_people = 1
    /\ in_res # <<>>

\* C22: for every date the enumeration has floor((close - open) / width) + 1
\* = 19 slots, starts at 08:00 AM, steps by exactly 40 minutes, has no slot
\* after closing time and does not depend on the date.
C22_Enumeration ==
    out.state = "done" =>
        /\ Len(out.slots) =
              (strptime_IMp(CLOSE_TIME_STR) - strptime_IMp(OPEN_TIME_STR))
                  \div SLOT_INTERVAL_MINUTES + 1
        /\ Len(out.slots) = 19
        /\ out.slots[1] = [h |-> 8, m |-> 0, p |-> "AM"]
        /\ \A i \in 1..(Len(out.slots) - 1) :
              strptime_IMp(out.slots[i + 1]) - strptime_IMp(out.slots[i]) = 40
        /\ \A i \in 1..Len(out.slots) :
              /\ ParsesIMp(out.slots[i])
              /\ strftime_IMp(strptime_IMp(out.slots[i])) = out.slots[i]
              /\ strptime_IMp(out.slots[i]) <= 20 * 60

\* the enumeration has been built for a date that does not parse
C22_Witness ==
    /\ out.state = "done"
    /\ in_date = None
    /\ Len(out.slots) > 0

-----------------------------------------------------------------------------
(* Notifications *)

\* the reservation final_confirm commits for party u
PendingOf(u) ==
    [name |-> user_data[u]["name"], phone |-> user_data[u]["phone"],
     date |-> user_data[u]["date"], time |-> user_data[u]["time"],
     people |-> Get(user_data[u], "people", 1)]

\* C23: a final_confirm or a cancel_booking whose message to the party or to
\* the administrator fails leaves the store and the history as the commit
\* wrote them: the reservation stored with one new Active entry, or the
\* reservation removed and its entry Cancelled.
C23_NotifyFailureKeepsCommit ==
    [][\A u \in Users, who \in NotifyFailures :
         LET before == HistoryOf(booking_history, u)
             after == HistoryOf(booking_history', u)
         IN  /\ FinalConfirmNotifyFails(u, who) =>
                   /\ Has(reservations', u)
                   /\ reservations'[u] = PendingOf(u)
                   /\ after = Append(before, ActiveEntryOf(PendingOf(u)))
             /\ CancelBookingNotifyFails(u, who) =>
                   /\ ~Has(reservations', u)
                   /\ Len(after) = Len(before)
                   /\ (\E i \in 1..Len(before) :
                          /\ before[i].status = "Active"
                          /\ before[i].date = reservations[u].date
                          /\ before[i].time = reservations[u].time)
                      => \E i \in 1..Len(before) :
                            /\ before[i].status = "Active"
                            /\ before[i].date = reservations[u].date
                            /\ before[i].time = reservations[u].time
                            /\ after = [before EXCEPT ![i].status = "Cancelled"]]_vars

\* the confirmation of a second booking has not reached the party; the
\* booking is stored with its Active entry next to the Cancelled one
C23_Witness ==
    /\ reply = "confirm_undelivered"
    /\ \E u \in Users :
          /\ Has(reservations, u)
          /\ HasStatus(u, "Cancelled")
          /\ HasStatus(u, "Active")

-----------------------------------------------------------------------------
(* Well-formed store *)

-----------------------------------------------------------------------------
(* Daily summary *)

-----------------------------------------------------------------------------
(* Party isolation *)

\* C26: a final_confirm, cancel_booking or my_bookings of party a leaves the
\* stored reservation and the history of every other party b as they were.
C26_PartyIsolation ==
    [][\A a \in Users :
         (FinalConfirm(a) \/ CancelBooking(a) \/ MyBookings(a)) =>
            \A b \in Users \ {a} :
               /\ Has(reservations', b) <=> Has(reservations, b)
               /\ Has(reservations, b) => reservations'[b] = reservations[b]
               /\ HistoryOf(booking_history', b) = HistoryOf(booking_history, b)]_vars

\* one party has listed its history and had its past entry completed, while
\* the past entry of the other party, for the same slot, is still Active
C26_Witness ==
    /\ reply = "history"
    /\ \E a \in Users, b \in Users :
          /\ a # b
          /\ HasStatus(a, "Completed")
          /\ \E i \in 1..Len(HistoryOf(booking_history, b)) :
                /\ booking_history[b][i].status = "Active"
                /\ BookingInstant(booking_history[b][i].date,
                                  booking_history[b][i].time) < now

====
